---- MODULE Spec2Model ----
(***************************************************************************)
(* The CT-ban registry of ctban.py: class BanSystem (a dict of bans keyed   *)
(* by unique id, plus two bounded deques of tracked players) and the       *)
(* pickle file it is loaded from and saved to.                             *)
(*                                                                         *)
(* A ban is the tuple <<ban_time, name>>; ban_time 0 is a permanent ban.   *)
(* A tracked entry is the tuple <<uniqueid, name>>.  time.time() is the    *)
(* variable now, counted in whole units.                                   *)
(***************************************************************************)
EXTENDS Integers, Sequences, FiniteSets, TLC

VARIABLES
    bans,         \* the dict itself: uniqueid -> <<ban_time, name>>
    leavers,      \* self.leavers, oldest first
    freekillers,  \* self.freekillers, oldest first
    file,         \* what BAN_DATABASE holds: NoFile or the pickled object
    now,          \* time.time()
    running,      \* whether the plugin is loaded: ban_system was built
    promised,     \* history: the ban the process last gave each uniqueid:
                  \* 0 permanent, t + d timed, -1 none (or lifted since)
    last          \* history: the last call, [op, id, name, ret, path]

vars == <<bans, leavers, freekillers, file, now, running, promised, last>>

----------------------------------------------------------------------------
(* Bounds of the model *)

MaxDur == 2       \* ban durations are drawn from 0..MaxDur
MaxTime == 3      \* the clock runs from 1 to MaxTime
NumTracked == 6   \* CapSpec tracks the players 1..NumTracked

(* The inputs the specifications draw from. *)
UniqueIds == {1, 2}          \* BanSpec: two players
Names == {"n1", "n2"}        \* the names a player may carry
Durations == 0..MaxDur
FewIds == {1}                \* Spec: one player
FewNames == {"n1"}           \* CapSpec: one name each
ManyIds == 1..NumTracked
Words == {"jointeam", "JoinTeam", "say"}
Teams == {"1", "2", "3"}
Commands == {<<w>> : w \in Words} \cup {<<w, a>> : w \in Words, a \in Teams}

----------------------------------------------------------------------------
(* Program constants *)

TRACKED_LEAVERS_NO == 5
TRACKED_FREEKILLERS_NO == 5

(* remove_ban's (None, None), and the None a method without a return gives *)
NotFound == <<-1, "None">>
Void == <<>>

(* what is_banned returns, and on_client_command's CommandReturn.BLOCK *)
True == <<TRUE>>
False == <<FALSE>>
Block == <<"BLOCK">>

----------------------------------------------------------------------------
(* dict and deque primitives *)

EmptyDict == [j \in {} |-> <<0, "">>]

NoFile ==
    [exists |-> FALSE, valid |-> FALSE, items |-> EmptyDict,
     leavers |-> <<>>, freekillers |-> <<>>]

(* The file after open('wb') and before pickle.dump has written it all:
   no pickle that loads. *)
Truncated ==
    [exists |-> TRUE, valid |-> FALSE, items |-> EmptyDict,
     leavers |-> <<>>, freekillers |-> <<>>]

DictSetDefault(d, k, v) ==
    [j \in DOMAIN d \cup {k} |-> IF j \in DOMAIN d THEN d[j] ELSE v]

DictSetOnly(d, k, v) == [j \in {k} |-> v]

DictSet(d, k, v) == [j \in DOMAIN d \cup {k} |-> IF j = k THEN v ELSE d[j]]

DictDel(d, k) == [j \in DOMAIN d \ {k} |-> d[j]]

DictGet(d, k, default) ==
    [dict |-> d, value |-> IF k \in DOMAIN d THEN d[k] ELSE default]

DictPop(d, k, default) ==
    [dict |-> DictDel(d, k),
     value |-> IF k \in DOMAIN d THEN d[k] ELSE default]

InSeq(q, x) == \E p \in 1..Len(q) : q[p] = x

DequeAppendDropNewest(q, x, maxlen) ==
    IF Len(q) >= maxlen
    THEN Append(SubSeq(q, 1, Len(q) - 1), x)
    ELSE Append(q, x)

DequeAppend(q, x, maxlen) ==
    IF Len(q) >= maxlen THEN Append(Tail(q), x) ELSE Append(q, x)

DequeRemove(q, x) ==
    IF InSeq(q, x)
    THEN LET p == CHOOSE p \in 1..Len(q) :
                      q[p] = x /\ \A r \in 1..(p - 1) : q[r] # x
         IN  SubSeq(q, 1, p - 1) \o SubSeq(q, p + 1, Len(q))
    ELSE q

----------------------------------------------------------------------------
(* BanSystem *)

BanTimeNoClock(t, duration) == duration

BanTime(t, duration) == IF duration = 0 THEN 0 ELSE t + duration

IsBannedNoSentinel(d, uniqueid, t) ==
    /\ uniqueid \in DOMAIN d
    /\ t < d[uniqueid][1]

IsBannedInverted(d, uniqueid, t) ==
    /\ uniqueid \in DOMAIN d
    /\ (d[uniqueid][1] = 0 \/ t >= d[uniqueid][1])

IsBanned(d, uniqueid, t) ==
    /\ uniqueid \in DOMAIN d
    /\ (d[uniqueid][1] = 0 \/ t < d[uniqueid][1])

CleanedUpPermanentToo(d, t) ==
    [j \in {k \in DOMAIN d : ~(t >= d[k][1])} |-> d[j]]

CleanedUpLate(d, t) ==
    [j \in {k \in DOMAIN d : ~(d[k][1] # 0 /\ t > d[k][1])} |-> d[j]]

CleanedUpEarly(d, t) ==
    [j \in {k \in DOMAIN d : d[k][1] = 0 \/ t + 1 < d[k][1]} |-> d[j]]

CleanedUp(d, t) ==
    [j \in {k \in DOMAIN d : ~(d[k][1] # 0 /\ t >= d[k][1])} |-> d[j]]

TrackIfNotStored(d, q, uniqueid, name, t, maxlen) ==
    IF uniqueid \in DOMAIN d THEN q
    ELSE IF InSeq(q, <<uniqueid, name>>) THEN q
    ELSE DequeAppend(q, <<uniqueid, name>>, maxlen)

Track(d, q, uniqueid, name, t, maxlen) ==
    IF IsBanned(d, uniqueid, t) THEN q
    ELSE IF InSeq(q, <<uniqueid, name>>) THEN q
    ELSE DequeAppend(q, <<uniqueid, name>>, maxlen)

Dump(d, l, f) ==
    [exists |-> TRUE, valid |-> TRUE, items |-> d, leavers |-> l,
     freekillers |-> f]

LoadNothing(f) ==
    [raised |-> FALSE, bans |-> EmptyDict, leavers |-> <<>>,
     freekillers |-> <<>>]

LoadSwallow(f) ==
    [raised |-> FALSE,
     bans |-> IF f.exists /\ f.valid THEN f.items ELSE EmptyDict,
     leavers |-> <<>>,
     freekillers |-> <<>>]

(* __init__: FileNotFoundError is caught, any error of pickle.load is not. *)
Load(f) ==
    [raised |-> f.exists /\ ~f.valid,
     bans |-> IF f.exists /\ f.valid THEN f.items ELSE EmptyDict,
     leavers |-> <<>>,
     freekillers |-> <<>>]

(* str.lower() on the command names of the model *)
Lower(w) ==
    IF w = "JoinTeam" THEN "jointeam" ELSE w

OnClientCommandCaseSensitive(command, d, uniqueid, t) ==
    IF command[1] # "jointeam"
    THEN [ret |-> Void, path |-> "other"]
    ELSE IF ~(Len(command) = 1 \/ command[2] \notin {"1", "2"})
    THEN [ret |-> Void, path |-> "allowed"]
    ELSE IF ~IsBanned(d, uniqueid, t)
    THEN [ret |-> Void, path |-> "not_banned"]
    ELSE [ret |-> Block, path |-> "blocked"]

OnClientCommand(command, d, uniqueid, t) ==
    IF Lower(command[1]) # "jointeam"
    THEN [ret |-> Void, path |-> "other"]
    ELSE IF ~(Len(command) = 1 \/ command[2] \notin {"1", "2"})
    THEN [ret |-> Void, path |-> "allowed"]
    ELSE IF ~IsBanned(d, uniqueid, t)
    THEN [ret |-> Void, path |-> "not_banned"]
    ELSE [ret |-> Block, path |-> "blocked"]

(* Which branch a call took, for the history variable last. *)
AddBanPath(d, uniqueid) ==
    IF uniqueid \in DOMAIN d THEN "replaced" ELSE "new"

RemoveBanPath(d, uniqueid) ==
    IF uniqueid \in DOMAIN d THEN "found" ELSE "missing"

CleanupPath(d, t) == IF CleanedUp(d, t) = d THEN "kept" ELSE "removed"

RestartPath(d, f) ==
    IF Load(f).raised THEN "error"
    ELSE IF Load(f).bans = d THEN "same"
    ELSE IF \E k \in DOMAIN Load(f).bans : k \notin DOMAIN d THEN "restored"
    ELSE "changed"

TrackPath(d, q, uniqueid, name, t, maxlen) ==
    IF IsBanned(d, uniqueid, t) THEN "banned"
    ELSE IF InSeq(q, <<uniqueid, name>>) THEN "present"
    ELSE IF Len(q) >= maxlen THEN "evicted"
    ELSE "appended"

Call(op, id, name, ret, path) ==
    [op |-> op, id |-> id, name |-> name, ret |-> ret, path |-> path]

----------------------------------------------------------------------------
(* Actions *)

Init ==
    /\ file = NoFile
    /\ bans = Load(NoFile).bans
    /\ leavers = Load(NoFile).leavers
    /\ freekillers = Load(NoFile).freekillers
    /\ now = 1
    /\ running = TRUE
    /\ promised = [i \in UniqueIds \cup ManyIds |-> -1]
    /\ last = Call("init", 0, "", Void, "")

AddBan(uniqueid, duration, name) ==
    /\ running
    /\ bans' = DictSet(bans, uniqueid, <<BanTime(now, duration), name>>)
    /\ leavers' = DequeRemove(leavers, <<uniqueid, name>>)
    /\ freekillers' = DequeRemove(freekillers, <<uniqueid, name>>)
    /\ promised' = [promised EXCEPT
                      ![uniqueid] = IF duration = 0 THEN 0 ELSE now + duration]
    /\ last' = Call("add_ban", uniqueid, name, Void, AddBanPath(bans, uniqueid))
    /\ UNCHANGED <<file, now, running>>

RemoveBan(uniqueid) ==
    /\ running
    /\ bans' = DictPop(bans, uniqueid, NotFound).dict
    /\ promised' = [promised EXCEPT ![uniqueid] = -1]
    /\ last' = Call("remove_ban", uniqueid, "",
                    DictPop(bans, uniqueid, NotFound).value,
                    RemoveBanPath(bans, uniqueid))
    /\ UNCHANGED <<leavers, freekillers, file, now, running>>

CleanupSaveIfRemoved ==
    /\ running
    /\ bans' = CleanedUp(bans, now)
    /\ file' = IF bans' = bans THEN file ELSE Dump(bans', leavers, freekillers)
    /\ last' = Call("cleanup", 0, "", Void, CleanupPath(bans, now))
    /\ UNCHANGED <<leavers, freekillers, now, running, promised>>

Cleanup ==
    /\ running
    /\ bans' = CleanedUp(bans, now)
    /\ file' = Dump(bans', leavers, freekillers)
    /\ last' = Call("cleanup", 0, "", Void, CleanupPath(bans, now))
    /\ UNCHANGED <<leavers, freekillers, now, running, promised>>

TrackLeaver(uniqueid, name) ==
    /\ running
    /\ leavers' = Track(bans, leavers, uniqueid, name, now, TRACKED_LEAVERS_NO)
    /\ last' = Call("track_leaver", uniqueid, name, Void,
                    TrackPath(bans, leavers, uniqueid, name, now,
                              TRACKED_LEAVERS_NO))
    /\ UNCHANGED <<bans, freekillers, file, now, running, promised>>

TrackFreekiller(uniqueid, name) ==
    /\ running
    /\ freekillers' =
          Track(bans, freekillers, uniqueid, name, now, TRACKED_FREEKILLERS_NO)
    /\ last' = Call("track_freekiller", uniqueid, name, Void,
                    TrackPath(bans, freekillers, uniqueid, name, now,
                              TRACKED_FREEKILLERS_NO))
    /\ UNCHANGED <<bans, leavers, file, now, running, promised>>

Tick ==
    /\ now < MaxTime
    /\ now' = now + 1
    /\ last' = Call("tick", 0, "", Void, "")
    /\ UNCHANGED <<bans, leavers, freekillers, file, running, promised>>

Restart ==
    /\ bans' = Load(file).bans
    /\ leavers' = Load(file).leavers
    /\ freekillers' = Load(file).freekillers
    /\ promised' = [i \in UniqueIds \cup ManyIds |-> -1]
    /\ running' = ~Load(file).raised
    /\ last' = Call("restart", 0, "", Void, RestartPath(bans, file))
    /\ UNCHANGED <<file, now>>

(* The process dies inside save(), after open('wb') and before pickle.dump
   has written the whole pickle. *)
CleanupCrash ==
    /\ running
    /\ file' = Truncated
    /\ running' = FALSE
    /\ bans' = EmptyDict
    /\ leavers' = <<>>
    /\ freekillers' = <<>>
    /\ promised' = [i \in UniqueIds \cup ManyIds |-> -1]
    /\ last' = Call("crash", 0, "", Void, "")
    /\ UNCHANGED now

IsBannedQuery(uniqueid) ==
    /\ running
    /\ last' = Call("is_banned", uniqueid, "",
                    IF IsBanned(bans, uniqueid, now) THEN True ELSE False, "")
    /\ UNCHANGED <<bans, leavers, freekillers, file, now, running, promised>>

ClientCommand(command, uniqueid) ==
    /\ running
    /\ last' = Call("client_command", uniqueid, "",
                    OnClientCommand(command, bans, uniqueid, now).ret,
                    OnClientCommand(command, bans, uniqueid, now).path)
    /\ UNCHANGED <<bans, leavers, freekillers, file, now, running, promised>>

----------------------------------------------------------------------------
(* Specifications *)

(* The whole system: one player under two names. *)
Next ==
    \/ \E i \in FewIds, d \in Durations, n \in Names : AddBan(i, d, n)
    \/ \E i \in FewIds : RemoveBan(i)
    \/ Cleanup
    \/ \E i \in FewIds, n \in Names : TrackLeaver(i, n)
    \/ \E i \in FewIds, n \in Names : TrackFreekiller(i, n)
    \/ Tick
    \/ Restart
    \/ CleanupCrash
    \/ \E i \in FewIds : IsBannedQuery(i)

Spec == Init /\ [][Next]_vars

(* The ban table of one process over time: bans, unbans and level ends of
   two players. *)
BanNext ==
    \/ \E i \in UniqueIds, d \in Durations, n \in Names : AddBan(i, d, n)
    \/ \E i \in UniqueIds : RemoveBan(i)
    \/ Cleanup
    \/ Tick

BanSpec == Init /\ [][BanNext]_vars

(* More players than a tracking list holds, one list at a time. *)
CapNext ==
    \/ \E i \in FewIds, n \in FewNames : AddBan(i, 0, n)
    \/ \E i \in FewIds : RemoveBan(i)
    \/ \E i \in ManyIds, n \in FewNames :
          freekillers = <<>> /\ TrackLeaver(i, n)
    \/ \E i \in ManyIds, n \in FewNames :
          leavers = <<>> /\ TrackFreekiller(i, n)

CapSpec == Init /\ [][CapNext]_vars

(* Two players who are banned, unbanned and tracked in one process. *)
FrameNext ==
    \/ \E i \in UniqueIds, d \in {0, 1}, n \in FewNames : AddBan(i, d, n)
    \/ \E i \in UniqueIds : RemoveBan(i)
    \/ Cleanup
    \/ \E i \in UniqueIds, n \in FewNames : TrackLeaver(i, n)
    \/ \E i \in UniqueIds, n \in FewNames : TrackFreekiller(i, n)
    \/ Tick

FrameSpec == Init /\ [][FrameNext]_vars

(* The queries: is_banned and the client-command filter, for two players. *)
FilterNext ==
    \/ \E i \in UniqueIds, d \in Durations, n \in FewNames : AddBan(i, d, n)
    \/ \E i \in UniqueIds : RemoveBan(i)
    \/ \E i \in UniqueIds, n \in FewNames : TrackLeaver(i, n)
    \/ \E i \in UniqueIds, n \in FewNames : TrackFreekiller(i, n)
    \/ Tick
    \/ \E i \in UniqueIds : IsBannedQuery(i)
    \/ \E c \in Commands, i \in UniqueIds : ClientCommand(c, i)

FilterSpec == Init /\ [][FilterNext]_vars

----------------------------------------------------------------------------
(* Claims *)

HasIdentity(q, uniqueid) == \E p \in 1..Len(q) : q[p][1] = uniqueid

(* C1: after add_ban(i, d, name) with d > 0 at time t, and until the next
   add_ban(i) or remove_ban(i), is_banned(i) is true at every time < t + d
   and false at every time >= t + d, whether or not cleanup ran. *)
C1_TimedBanLastsItsDuration ==
    \A i \in UniqueIds :
        promised[i] > 0 => (IsBanned(bans, i, now) <=> now < promised[i])

(* A timed ban that ran out while its record is still stored and no cleanup
   has ever run. *)
C1_Witness ==
    \E i \in UniqueIds :
        /\ promised[i] > 0
        /\ now >= promised[i]
        /\ i \in DOMAIN bans
        /\ ~file.exists

(* C2: after add_ban(i, 0, name), and until the next add_ban(i) or
   remove_ban(i), is_banned(i) is true at every time; and cleanup keeps every
   record whose ban_time is 0, unchanged. *)
C2_PermanentBanNeverExpires ==
    /\ [](\A i \in UniqueIds : promised[i] = 0 => IsBanned(bans, i, now))
    /\ [][last'.op = "cleanup" =>
            \A i \in DOMAIN bans :
                bans[i][1] = 0 => (i \in DOMAIN bans' /\ bans'[i] = bans[i])]_vars

(* A permanent ban at the end of time, just after a cleanup that removed the
   other player's timed ban. *)
C2_Witness ==
    \E i, j \in UniqueIds :
        /\ promised[i] = 0
        /\ IsBanned(bans, i, now)
        /\ now = MaxTime
        /\ last.op = "cleanup"
        /\ promised[j] > 0
        /\ j \notin DOMAIN bans

(* C3, as amended: a save followed at once by a fresh load yields the same
   ban table, and empty leaver and freekiller sequences. *)
C3_RoundTripKeepsBansOnly ==
    [][(last.op = "cleanup" /\ last'.op = "restart") =>
          /\ bans' = bans
          /\ leavers' = <<>>
          /\ freekillers' = <<>>]_vars

(* A restart from a file that was saved with a leaver in it and that gave a
   ban back. *)
C3_Witness ==
    /\ last.op = "restart"
    /\ file.exists
    /\ Len(file.leavers) > 0
    /\ DOMAIN bans # {}
    /\ bans = file.items
    /\ leavers = <<>>

(* C3, as claimed: a save followed at once by a fresh load yields the same
   ban table and the same leaver and freekiller sequences. *)
C3_RoundTripKeepsEverything ==
    [][(last.op = "cleanup" /\ last'.op = "restart") =>
          /\ bans' = bans
          /\ leavers' = leavers
          /\ freekillers' = freekillers]_vars

(* C4, as claimed: after add_ban(i, duration, name) neither tracking
   sequence holds an entry of identity i. *)
C4_BanRemovesTrackedIdentity ==
    last.op = "add_ban" =>
        /\ ~HasIdentity(leavers, last.id)
        /\ ~HasIdentity(freekillers, last.id)

(* C5, as claimed: no tracking sequence holds two entries of one identity. *)
C5_NoDuplicateIdentity ==
    /\ \A p, r \in 1..Len(leavers) :
          leavers[p][1] = leavers[r][1] => p = r
    /\ \A p, r \in 1..Len(freekillers) :
          freekillers[p][1] = freekillers[r][1] => p = r

(* C6: cleanup at time now deletes exactly the records whose ban_time is
   not 0 and <= now, and leaves every other record as it was; no expired
   record is stored after it. *)
C6_CleanupRemovesExactlyExpired ==
    [][last'.op = "cleanup" =>
          /\ DOMAIN bans' \subseteq DOMAIN bans
          /\ \A i \in DOMAIN bans :
                i \notin DOMAIN bans' <=> (bans[i][1] # 0 /\ bans[i][1] <= now)
          /\ \A i \in DOMAIN bans' : bans'[i] = bans[i]
          /\ \A i \in DOMAIN bans' : bans'[i][1] = 0 \/ bans'[i][1] > now']_vars

(* A cleanup has removed an expired timed ban and kept a permanent one. *)
C6_Witness ==
    \E i, j \in UniqueIds :
        /\ last.op = "cleanup"
        /\ promised[i] > 0
        /\ now >= promised[i]
        /\ i \notin DOMAIN bans
        /\ j \in DOMAIN bans
        /\ bans[j][1] = 0

(* What tracking does for a player who is not banned. *)
TrackedAsUnbanned(q, qNew, uniqueid, name) ==
    IF InSeq(q, <<uniqueid, name>>)
    THEN qNew = q
    ELSE /\ Len(qNew) > 0
         /\ qNew[Len(qNew)] = <<uniqueid, name>>
         /\ Len(qNew) >= Len(q)

(* C7: tracking a player for whom is_banned is true leaves the sequence
   unchanged; a player whose only record has expired is tracked as an
   unbanned one is. *)
C7_TrackingSuppressedWhileBanned ==
    [][/\ last'.op = "track_leaver" =>
            /\ IsBanned(bans, last'.id, now) => leavers' = leavers
            /\ (last'.id \in DOMAIN bans /\ ~IsBanned(bans, last'.id, now)) =>
                  TrackedAsUnbanned(leavers, leavers', last'.id, last'.name)
       /\ last'.op = "track_freekiller" =>
            /\ IsBanned(bans, last'.id, now) => freekillers' = freekillers
            /\ (last'.id \in DOMAIN bans /\ ~IsBanned(bans, last'.id, now)) =>
                  TrackedAsUnbanned(freekillers, freekillers',
                                    last'.id, last'.name)]_vars

(* A leaver was appended although an expired record of theirs is stored. *)
C7_Witness ==
    /\ last.op = "track_leaver"
    /\ last.path = "appended"
    /\ last.id \in DOMAIN bans
    /\ HasIdentity(leavers, last.id)

(* What appending to a list that holds at most 5 gives: the new entry last,
   the oldest one dropped if there were 5, the others in their order. *)
AppendedWithin5(q, qNew, entry) ==
    IF Len(q) < 5
    THEN qNew = q \o <<entry>>
    ELSE /\ Len(qNew) = 5
         /\ qNew[5] = entry
         /\ \A p \in 1..4 : qNew[p] = q[p + 1]

(* C8: no tracking sequence ever holds more than 5 entries; tracking a
   player who is not banned and not yet in the sequence appends them, and
   drops the oldest entry if the sequence held 5. *)
C8_BoundedFifo ==
    /\ [](Len(leavers) <= 5 /\ Len(freekillers) <= 5)
    /\ [][/\ (/\ last'.op = "track_leaver"
              /\ ~IsBanned(bans, last'.id, now)
              /\ ~HasIdentity(leavers, last'.id)) =>
                 AppendedWithin5(leavers, leavers', <<last'.id, last'.name>>)
          /\ (/\ last'.op = "track_freekiller"
              /\ ~IsBanned(bans, last'.id, now)
              /\ ~HasIdentity(freekillers, last'.id)) =>
                 AppendedWithin5(freekillers, freekillers',
                                 <<last'.id, last'.name>>)]_vars

(* A sixth freekiller has pushed the oldest one out. *)
C8_Witness ==
    /\ last.op = "track_freekiller"
    /\ last.path = "evicted"
    /\ Len(freekillers) = 5
    /\ freekillers[5][1] = last.id

(* C9: remove_ban(i) without a stored record returns (None, None) and
   leaves the table as it was; with a stored record it returns that record
   and deletes it alone; a second remove_ban(i) in a row finds nothing; and
   is_banned(i) is false afterwards. *)
C9_RemoveBan ==
    [][last'.op = "remove_ban" =>
          LET i == last'.id IN
          /\ i \notin DOMAIN bans =>
                (last'.ret = NotFound /\ bans' = bans)
          /\ i \in DOMAIN bans =>
                /\ last'.ret = bans[i]
                /\ last'.ret # NotFound
                /\ DOMAIN bans' = DOMAIN bans \ {i}
                /\ \A j \in DOMAIN bans' : bans'[j] = bans[j]
          /\ (last.op = "remove_ban" /\ last.id = i) => last'.ret = NotFound
          /\ ~IsBanned(bans', i, now')]_vars

(* remove_ban has returned and deleted a record that had already expired. *)
C9_Witness ==
    /\ last.op = "remove_ban"
    /\ last.path = "found"
    /\ last.ret[1] > 0
    /\ now >= last.ret[1]
    /\ last.id \notin DOMAIN bans

(* C10: add_ban(i, d2, name2) at time t on an identity that has a record
   replaces it: the ban_time becomes t + d2, or 0 if d2 = 0 (what promised
   records of the call), and the name becomes name2, whatever the record
   was; the other records stay. *)
C10_RebanReplaces ==
    [][(last'.op = "add_ban" /\ last'.id \in DOMAIN bans) =>
          /\ bans'[last'.id] = <<promised'[last'.id], last'.name>>
          /\ DOMAIN bans' = DOMAIN bans
          /\ \A j \in DOMAIN bans \ {last'.id} : bans'[j] = bans[j]]_vars

(* A timed ban under another name has replaced a permanent ban that the last
   cleanup saved. *)
C10_Witness ==
    /\ last.op = "add_ban"
    /\ last.path = "replaced"
    /\ bans[last.id][1] > 0
    /\ file.exists
    /\ last.id \in DOMAIN file.items
    /\ file.items[last.id][1] = 0
    /\ file.items[last.id][2] # bans[last.id][2]

(* C11: is_banned(i) at time now returns true exactly when a record for i
   exists and either its ban_time is the permanent sentinel 0 or
   now < ban_time; the call changes neither the ban table nor the leaver or
   freekiller sequences, so an expired record reports false and stays
   stored. *)
C11_IsBannedReadsOnly ==
    [][last'.op = "is_banned" =>
          /\ last'.ret = True <=>
                /\ last'.id \in DOMAIN bans
                /\ (bans[last'.id][1] = 0 \/ now < bans[last'.id][1])
          /\ last'.ret \in {True, False}
          /\ bans' = bans
          /\ leavers' = leavers
          /\ freekillers' = freekillers]_vars

(* is_banned has returned false for a tracked player whose expired record is
   still stored, while the other player is permanently banned. *)
C11_Witness ==
    /\ HasIdentity(leavers, last.id)
    /\ HasIdentity(freekillers, last.id)
    /\ last.op = "is_banned"
    /\ last.ret = False
    /\ last.id \in DOMAIN bans
    /\ bans[last.id][1] > 0
    /\ now >= bans[last.id][1]
    /\ \E j \in DOMAIN bans \ {last.id} : bans[j][1] = 0

(* C12: the persisted file changes only in a completed cleanup: add_ban,
   remove_ban, track_leaver, track_freekiller and is_banned leave it
   unchanged, a completed cleanup stores the ban table as it is at its end,
   a crash leaves the file of the last completed cleanup, and a restart loads
   the ban table of that file; so a ban added since the last completed
   cleanup is lost and a ban removed since then is present again. *)
C12_PersistedOnlyByCleanup ==
    [][/\ last'.op \in {"add_ban", "remove_ban", "track_leaver",
                        "track_freekiller", "is_banned"} => file' = file
       /\ last'.op = "cleanup" => file'.items = bans'
       /\ last'.op = "crash" => file' = file
       /\ last'.op = "restart" =>
             /\ ~Load(file).raised
             /\ bans' = file.items]_vars

(* C13: cleanup always saves after its scan, also when the scan removed no
   record; after a cleanup whose save has succeeded the file exists, loads,
   and holds the in-memory ban table as it is after the expired records
   were deleted. *)
C13_CleanupAlwaysSaves ==
    [][last'.op = "cleanup" =>
          /\ file'.exists
          /\ file'.valid
          /\ file'.items = bans'
          /\ ~Load(file').raised
          /\ Load(file').bans = bans'
          /\ \A i \in DOMAIN bans :
                (bans[i][1] # 0 /\ now >= bans[i][1]) => i \notin DOMAIN bans'
          /\ \A i \in DOMAIN bans :
                (bans[i][1] = 0 \/ now < bans[i][1]) =>
                    (i \in DOMAIN file'.items /\ file'.items[i] = bans[i])]_vars

(* A cleanup that removed nothing has saved a table with a timed ban that
   was added after the previous save. *)
C13_Witness ==
    /\ last.op = "cleanup"
    /\ last.path = "kept"
    /\ file.exists
    /\ file.valid
    /\ \E i \in DOMAIN file.items :
          /\ file.items[i] = bans[i]
          /\ bans[i][1] > now
          /\ promised[i] = bans[i][1]

(* C14: constructing the registry when the file does not exist gives an
   empty ban table and empty leaver and freekiller sequences without an
   error; constructing it when the file exists but does not deserialize
   fails with an error that reaches the caller, so no registry is running
   afterwards. *)
C14_LoadMissingOrCorrupt ==
    [][last'.op = "restart" =>
          /\ ~file.exists =>
                /\ running'
                /\ last'.path # "error"
                /\ bans' = EmptyDict
                /\ leavers' = <<>>
                /\ freekillers' = <<>>
          /\ (file.exists /\ ~file.valid) =>
                /\ ~running'
                /\ last'.path = "error"]_vars

(* The plugin was started on a file that an interrupted save had truncated,
   and the load has failed. *)
C14_Witness ==
    /\ last.op = "restart"
    /\ last.path = "error"
    /\ ~running
    /\ file = Truncated

(* C15: save is atomic with respect to crashes: when the process dies inside
   save, the file afterwards is either the complete file that was there
   before or the complete new one, never a truncated one, and a load of it
   does not fail. *)
C15_SaveIsAtomic ==
    [][last'.op = "crash" =>
          /\ file' \in {file, Dump(CleanedUp(bans, now), leavers, freekillers)}
          /\ ~Load(file').raised
          /\ file.exists => Load(file').bans \in {file.items, CleanedUp(bans, now)}]_vars

(* C16: cleanup is invisible to queries: for every identity is_banned gives
   the same answer just before and just after a cleanup at the same time;
   cleanup removes a record only if is_banned was already false for it, and
   every record it leaves is currently banned. *)
C16_CleanupInvisibleToQueries ==
    [][last'.op = "cleanup" =>
          /\ now' = now
          /\ \A i \in UniqueIds :
                IsBanned(bans, i, now) <=> IsBanned(bans', i, now')
          /\ \A i \in DOMAIN bans \ DOMAIN bans' : ~IsBanned(bans, i, now)
          /\ \A i \in DOMAIN bans' : IsBanned(bans', i, now')]_vars

(* A cleanup has removed the expired record of one player and left the
   record of the other, whose timed ban is still running. *)
C16_Witness ==
    /\ last.op = "cleanup"
    /\ last.path = "removed"
    /\ \E i \in UniqueIds : promised[i] > 0 /\ i \notin DOMAIN bans
    /\ \E j \in DOMAIN bans : bans[j][1] > now

(* C17: within one process lifetime, with time that never decreases, the
   answer of is_banned(i) goes from false to true only in a step that is
   add_ban(i): no other operation and no passing of time bans a player or
   brings an expired ban back. *)
C17_OnlyAddBanBans ==
    [][/\ now' >= now
       /\ \A i \in UniqueIds :
             (~IsBanned(bans, i, now) /\ IsBanned(bans', i, now')) =>
                 (last'.op = "add_ban" /\ last'.id = i)]_vars

(* add_ban has banned a player who had no record, at a later time than the
   start, while the expired record of the other player is still stored. *)
C17_Witness ==
    /\ last.op = "add_ban"
    /\ last.path = "new"
    /\ now > 1
    /\ IsBanned(bans, last.id, now)
    /\ \E j \in DOMAIN bans \ {last.id} : ~IsBanned(bans, j, now)

(* C18: frame conditions: track_leaver changes neither the freekiller
   sequence nor the ban table, track_freekiller changes neither the leaver
   sequence nor the ban table, remove_ban and cleanup change neither
   sequence, and add_ban(i) and remove_ban(i) leave the record of every
   other identity as it was, present or absent. *)
C18_Frame ==
    [][/\ last'.op = "track_leaver" =>
             (freekillers' = freekillers /\ bans' = bans)
       /\ last'.op = "track_freekiller" =>
             (leavers' = leavers /\ bans' = bans)
       /\ last'.op \in {"remove_ban", "cleanup"} =>
             (leavers' = leavers /\ freekillers' = freekillers)
       /\ last'.op \in {"add_ban", "remove_ban"} =>
             \A j \in UniqueIds \ {last'.id} :
                 /\ j \in DOMAIN bans' <=> j \in DOMAIN bans
                 /\ j \in DOMAIN bans => bans'[j] = bans[j]]_vars

(* remove_ban has deleted the record of a player who is in both tracked
   sequences, while the other player is permanently banned. *)
C18_Witness ==
    /\ last.op = "remove_ban"
    /\ last.path = "found"
    /\ HasIdentity(leavers, last.id)
    /\ HasIdentity(freekillers, last.id)
    /\ \E j \in DOMAIN bans \ {last.id} : bans[j][1] = 0

(* C19: the client-command filter blocks a command exactly when its name is
   'jointeam' in any letter case, it has no team argument or a team argument
   other than '1' and '2', and is_banned holds for the player at that
   moment; so a player without a record or with an expired one is never
   blocked, and jointeam to team '1' or '2' is never blocked. The filter
   changes nothing in the registry. *)
C19_FilterBlocksBannedJoin ==
    [][last'.op = "client_command" =>
          /\ \A c \in Commands :
                ClientCommand(c, last'.id) =>
                    (last'.ret = Block <=>
                        /\ c[1] \in {"jointeam", "JoinTeam"}
                        /\ (Len(c) = 1 \/ c[2] \notin {"1", "2"})
                        /\ last'.id \in DOMAIN bans
                        /\ (bans[last'.id][1] = 0 \/
                            now < bans[last'.id][1]))
          /\ last'.ret \in {Block, Void}
          /\ last'.ret = Block => IsBanned(bans, last'.id, now)
          /\ bans' = bans
          /\ leavers' = leavers
          /\ freekillers' = freekillers]_vars

(* A jointeam command of a player whose timed ban is still running has been
   blocked. *)
C19_Witness ==
    /\ last.op = "client_command"
    /\ last.path = "blocked"
    /\ last.ret = Block
    /\ last.id \in DOMAIN bans
    /\ bans[last.id][1] > now

====
